---- MODULE Spec2Model ----
(***************************************************************************)
(* Model of main.py, the option-chain poller: the price extraction of      *)
(* OptionChainBot.get_ltp (both the dhanhq client path and the HTTP        *)
(* fallback), build_option_chain, send_telegram, and the poll loop with    *)
(* its start/stop/cancellation protocol.                                   *)
(*                                                                         *)
(* Conventions.                                                            *)
(*  - Python str values and dict keys are sequences of one-character       *)
(*    strings, so that lower(), substring tests, replace(",", ""), strip() *)
(*    and float() are computed character by character.                    *)
(*  - A Python float is a record: Fin(c) is the finite value c/100,        *)
(*    NaN and Inf(sign) are the non-finite values.                         *)
(*  - A raw response is a tagged tree: null, bool, num, str, dict (a       *)
(*    sequence of key/value entries in iteration order), list.             *)
(*  - asyncio is modelled at the granularity of the points where the poll  *)
(*    task can be suspended (bot.send_message, the two asyncio.sleep       *)
(*    calls); CancelledError is a BaseException (Python >= 3.8), so        *)
(*    "except Exception" does not catch it.                                *)
(***************************************************************************)
EXTENDS Integers, Sequences, FiniteSets, TLC

VARIABLES
    dhan,                \* the dhanhq client object exists (main.py:54-62)
    DHAN_ACCESS_TOKEN,   \* the access token is a non-empty string (main.py:40)
    TELEGRAM_BOT_TOKEN,  \* the bot token is a non-empty string (main.py:41)
    TELEGRAM_CHAT_ID,    \* the chat id is a non-empty string (main.py:42)
    POLL_INTERVAL,       \* seconds (main.py:44)
    STRIKE_WINDOW,       \* strikes on each side of the ATM strike (main.py:45)
    running,             \* OptionChainBot.running
    task,                \* OptionChainBot._task: where the poll task stands
    cancelReq,           \* Task.cancel() was called and not yet delivered
    stops,               \* stop() coroutines created and not yet run
    idx,                 \* position in INSTRUMENTS of the instrument being processed
    fetch,               \* outcome of the last upstream fetch
    ltp,                 \* outcome of the last get_ltp call
    chain,               \* outcome of the last build_option_chain call
    sleepDur,            \* argument of the asyncio.sleep in progress, in 1/255 s
    fetched,             \* instruments fetched so far in the current cycle, in order
    failed,              \* instruments of the current cycle for which get_ltp gave None
    reported,            \* instruments of the current cycle with a delivery attempted
    ev                   \* what the last step of the model did

vars == <<dhan, DHAN_ACCESS_TOKEN, TELEGRAM_BOT_TOKEN, TELEGRAM_CHAT_ID,
          POLL_INTERVAL, STRIKE_WINDOW, running, task, cancelReq, stops, idx,
          fetch, ltp, chain, sleepDur, fetched, failed, reported, ev>>

cfgVars == <<dhan, DHAN_ACCESS_TOKEN, TELEGRAM_BOT_TOKEN, TELEGRAM_CHAT_ID,
             POLL_INTERVAL, STRIKE_WINDOW>>

-----------------------------------------------------------------------------
(* Characters and strings                                                  *)

UpperChars == <<"A","B","C","D","E","F","G","H","I","J","K","L","M",
                "N","O","P","Q","R","S","T","U","V","W","X","Y","Z">>

LowerChars == <<"a","b","c","d","e","f","g","h","i","j","k","l","m",
                "n","o","p","q","r","s","t","u","v","w","x","y","z">>

DigitChars == <<"0","1","2","3","4","5","6","7","8","9">>

\* str.lower(), one character
LowerChar(c) ==
    IF \E i \in 1..26 : UpperChars[i] = c
    THEN LowerChars[CHOOSE i \in 1..26 : UpperChars[i] = c]
    ELSE c

\* str.lower()
Lower(s) == [i \in 1..Len(s) |-> LowerChar(s[i])]

\* sub in s
Contains(s, sub) ==
    \E i \in 1..(Len(s) - Len(sub) + 1) : SubSeq(s, i, i + Len(sub) - 1) = sub

\* s.replace(",", "")
StripCommas(s) == SelectSeq(s, LAMBDA c : c # ",")

RECURSIVE LStrip(_)
LStrip(s) == IF s # <<>> /\ Head(s) = " " THEN LStrip(Tail(s)) ELSE s

RECURSIVE RStrip(_)
RStrip(s) ==
    IF s # <<>> /\ s[Len(s)] = " " THEN RStrip(SubSeq(s, 1, Len(s) - 1)) ELSE s

\* s.strip(), and the whitespace float() itself ignores
Strip(s) == RStrip(LStrip(s))

IsDigit(c) == \E i \in 1..10 : DigitChars[i] = c

DigitVal(c) == (CHOOSE i \in 1..10 : DigitChars[i] = c) - 1

RECURSIVE IntOf(_)
IntOf(ds) ==
    IF ds = <<>> THEN 0
    ELSE 10 * IntOf(SubSeq(ds, 1, Len(ds) - 1)) + DigitVal(ds[Len(ds)])

RECURSIVE DigitsOf(_)
DigitsOf(n) ==
    IF n < 10 THEN <<DigitChars[n + 1]>>
    ELSE DigitsOf(n \div 10) \o <<DigitChars[(n % 10) + 1]>>

-----------------------------------------------------------------------------
(* Python floats                                                           *)

Fin(c) == [k |-> "fin", c |-> c]

NaN == [k |-> "nan", c |-> 0]

Inf(sign) == [k |-> "inf", c |-> sign]

IsFinite(x) == x.k = "fin"

ParseOk(x) == [ok |-> TRUE, x |-> x]

ParseFail == [ok |-> FALSE, x |-> NaN]

S_nan == <<"n","a","n">>

S_inf == <<"i","n","f">>

S_infinity == <<"i","n","f","i","n","i","t","y">>

\* The hundredths of the decimal literal int "." frac (frac given as digits).
FracHundredths(fr) ==
    IF Len(fr) = 0 THEN 0
    ELSE IF Len(fr) = 1 THEN 10 * DigitVal(fr[1])
    ELSE 10 * DigitVal(fr[1]) + DigitVal(fr[2])

\* the text after an optional sign
Unsigned(t) == IF t # <<>> /\ Head(t) \in {"-", "+"} THEN Tail(t) ELSE t

IsNegative(t) == t # <<>> /\ Head(t) = "-"

\* where the decimal point is, or one past the end
DotIndex(b) ==
    IF \E i \in 1..Len(b) : b[i] = "." THEN CHOOSE i \in 1..Len(b) : b[i] = "."
    ELSE Len(b) + 1

\* digits with at most one point and at least one digit
IsDecimal(b) ==
    /\ \A i \in 1..Len(b) : IsDigit(b[i]) \/ b[i] = "."
    /\ Cardinality({i \in 1..Len(b) : b[i] = "."}) <= 1
    /\ \E i \in 1..Len(b) : IsDigit(b[i])

\* the value of a decimal text, in hundredths
Magnitude(b) ==
    100 * IntOf(SubSeq(b, 1, DotIndex(b) - 1))
    + FracHundredths(SubSeq(b, DotIndex(b) + 1, Len(b)))

ParseStripped(t) ==
    IF Lower(Unsigned(t)) = S_nan THEN ParseOk(NaN)
    ELSE IF Lower(Unsigned(t)) \in {S_inf, S_infinity}
         THEN ParseOk(Inf(IF IsNegative(t) THEN -1 ELSE 1))
    ELSE IF IsDecimal(Unsigned(t))
         THEN ParseOk(Fin(IF IsNegative(t) THEN 0 - Magnitude(Unsigned(t))
                          ELSE Magnitude(Unsigned(t))))
    ELSE ParseFail

\* float(s) for a str s: surrounding whitespace ignored, an optional sign,
\* then nan / inf / infinity in any case, or digits with at most one point
\* and at least one digit.  ok = FALSE is ValueError.  (Exponents and
\* underscores are outside the alphabet of the strings of this model, and
\* fractions are kept to two places.)
ParseFloat(s) == ParseStripped(Strip(s))

\* str(x) for a float or int x
FloatStr(x) ==
    IF x.k = "nan" THEN S_nan
    ELSE IF x.k = "inf" THEN (IF x.c < 0 THEN <<"-">> ELSE <<>>) \o S_inf
    ELSE LET m  == IF x.c < 0 THEN 0 - x.c ELSE x.c
             fr == m % 100
         IN  (IF x.c < 0 THEN <<"-">> ELSE <<>>)
             \o DigitsOf(m \div 100)
             \o <<".">> \o <<DigitChars[(fr \div 10) + 1], DigitChars[(fr % 10) + 1]>>

-----------------------------------------------------------------------------
(* Raw response values                                                     *)

Null == [t |-> "null"]

Bool(b) == [t |-> "bool", b |-> b]

Num(x) == [t |-> "num", x |-> x]

Str(s) == [t |-> "str", s |-> s]

Dict(items) == [t |-> "dict", items |-> items]

List(items) == [t |-> "list", items |-> items]

\* A dict key: a str, or a key of another type (an int)
StrKey(s) == [str |-> TRUE, s |-> s]

IntKey(s) == [str |-> FALSE, s |-> s]

Entry(k, v) == [k |-> k, v |-> v]

\* key in d, for a str key
HasKey(d, s) == \E i \in 1..Len(d.items) : d.items[i].k = StrKey(s)

\* d[key] / d.get(key)
Get(d, s) == d.items[CHOOSE i \in 1..Len(d.items) : d.items[i].k = StrKey(s)].v

\* not v: the values Python takes as false
Falsy(v) ==
    \/ v.t = "null"
    \/ v.t = "bool" /\ ~v.b
    \/ v.t = "num" /\ v.x = Fin(0)
    \/ v.t = "str" /\ v.s = <<>>
    \/ v.t \in {"dict", "list"} /\ v.items = <<>>

\* str(v): a str is itself, a number its decimal text, a bool "True" or
\* "False"; the text of a dict or list starts with a brace or bracket, which
\* is all float() needs to reject it.
PyStr(v) ==
    CASE v.t = "str"  -> v.s
      [] v.t = "num"  -> FloatStr(v.x)
      [] v.t = "bool" -> IF v.b THEN <<"T","r","u","e">> ELSE <<"F","a","l","s","e">>
      [] v.t = "null" -> <<"N","o","n","e">>
      [] v.t = "dict" -> <<"{","}">>
      [] OTHER        -> <<"[","]">>

\* float(v) for a collected hit: a float, an int or a bool
FloatOf(v) == IF v.t = "bool" THEN Fin(IF v.b THEN 100 ELSE 0) ELSE v.x

-----------------------------------------------------------------------------
(* Key names                                                               *)

K_LTP == <<"L","T","P">>

K_ltp == <<"l","t","p">>

K_lastPrice == <<"l","a","s","t","P","r","i","c","e">>

K_last_traded_price == <<"l","a","s","t","_","t","r","a","d","e","d","_","p","r","i","c","e">>

K_lastTradedPrice == <<"l","a","s","t","T","r","a","d","e","d","P","r","i","c","e">>

K_last == <<"l","a","s","t">>

K_data == <<"d","a","t","a">>

K_result == <<"r","e","s","u","l","t">>

K_response == <<"r","e","s","p","o","n","s","e">>

K_payload == <<"p","a","y","l","o","a","d">>

S_price == <<"p","r","i","c","e">>

S_lt == <<"l","t">>

\* main.py:146, the container keys of the dhanhq path, in the order tried
CONTAINERS == <<K_data, K_result, K_response, K_payload>>

\* main.py:154, the direct keys of the dhanhq path, in the order tried
DHAN_KEYS == <<K_LTP, K_ltp, K_lastPrice, K_last_traded_price, K_lastTradedPrice, K_last>>

\* main.py:200, the direct keys of the HTTP path, in the order tried
HTTP_KEYS == <<K_LTP, K_ltp, K_lastPrice, K_last_traded_price>>

\* main.py:89, the default of max_depth
MAX_DEPTH == 4

\* main.py:111, obj[:200]
MAX_LIST_SCAN == 200

-----------------------------------------------------------------------------
(* _deep_search_numeric_candidates                                         *)

\* main.py:97 and 104: the test on the key.  k.lower() exists only on a str.
KeyLooksLikeLtp(s) ==
    LET l == Lower(s)
    IN  Contains(l, K_ltp) \/ Contains(l, K_last) \/ Contains(l, S_price) \/ Contains(l, S_lt)

Hits(h) == [raised |-> FALSE, hits |-> h]

SearchRaised == [raised |-> TRUE, hits |-> <<>>]

\* main.py:96-107, what one dict entry itself contributes.  An int, float or
\* bool value evaluates k.lower() unguarded: AttributeError on a key that is
\* not a str.  A str value is converted inside try/except, and there the bare
\* except also swallows the AttributeError.
EntryHits(e) ==
    IF e.v.t \in {"num", "bool"}
    THEN IF ~e.k.str THEN SearchRaised
         ELSE IF KeyLooksLikeLtp(e.k.s) THEN Hits(<<e.v>>) ELSE Hits(<<>>)
    ELSE IF e.v.t = "str"
    THEN LET f == ParseFloat(Strip(StripCommas(e.v.s)))
         IN  IF f.ok /\ e.k.str /\ KeyLooksLikeLtp(e.k.s)
             THEN Hits(<<Num(f.x)>>) ELSE Hits(<<>>)
    ELSE Hits(<<>>)

RECURSIVE deep_search_numeric_candidates(_, _)
RECURSIVE ScanDict(_, _, _, _)
RECURSIVE ScanList(_, _, _, _)

\* main.py:94-109, the entries lo..hi of a dict in iteration order: each
\* entry's own hit, then the hits below it.  (The range is halved rather than
\* walked, which gives the same sequence.)
ScanDict(items, lo, hi, depth) ==
    IF lo > hi THEN Hits(<<>>)
    ELSE IF lo = hi
    THEN LET own == EntryHits(items[lo])
         IN  IF own.raised THEN SearchRaised
             ELSE LET sub == deep_search_numeric_candidates(items[lo].v, depth + 1)
                  IN  IF sub.raised THEN SearchRaised ELSE Hits(own.hits \o sub.hits)
    ELSE LET mid   == (lo + hi) \div 2
             left  == ScanDict(items, lo, mid, depth)
             right == ScanDict(items, mid + 1, hi, depth)
         IN  IF left.raised \/ right.raised THEN SearchRaised
             ELSE Hits(left.hits \o right.hits)

\* main.py:111-112, the elements lo..hi of a list by index
ScanList(items, lo, hi, depth) ==
    IF lo > hi THEN Hits(<<>>)
    ELSE IF lo = hi THEN deep_search_numeric_candidates(items[lo], depth + 1)
    ELSE LET mid   == (lo + hi) \div 2
             left  == ScanList(items, lo, mid, depth)
             right == ScanList(items, mid + 1, hi, depth)
         IN  IF left.raised \/ right.raised THEN SearchRaised
             ELSE Hits(left.hits \o right.hits)

\* main.py:89-113.  The result is the sequence of collected values (the
\* paths collected with them are only logged), or raised.
deep_search_numeric_candidates(obj, depth) ==
    IF depth > MAX_DEPTH \/ obj.t = "null" THEN Hits(<<>>)
    ELSE IF obj.t = "dict" THEN ScanDict(obj.items, 1, Len(obj.items), depth)
    ELSE IF obj.t = "list"
         THEN ScanList(obj.items, 1,
                       IF Len(obj.items) < MAX_LIST_SCAN
                       THEN Len(obj.items) ELSE MAX_LIST_SCAN, depth)
    ELSE Hits(<<>>)

-----------------------------------------------------------------------------
(* get_ltp                                                                 *)

\* What a call returns or does: a float, None, or an exception leaving it.
Value(x) == [kind |-> "value", x |-> x]

None == [kind |-> "none", x |-> NaN]

Raise == [kind |-> "raise", x |-> NaN]

\* The upstream call: it returns a raw response or raises.
FetchValue(v) == [raised |-> FALSE, v |-> v]

FetchRaised == [raised |-> TRUE, v |-> Null]

\* main.py:155-161 and 201-205: body[key] is tried when the key is present
\* and its value is neither None nor ""; float(str(value).replace(",", ""))
\* decides, and a failure is passed over.
Usable(body, key) ==
    /\ HasKey(body, key)
    /\ Get(body, key) # Null
    /\ Get(body, key) # Str(<<>>)
    /\ ParseFloat(StripCommas(PyStr(Get(body, key)))).ok

DirectValue(body, key) == ParseFloat(StripCommas(PyStr(Get(body, key)))).x

\* main.py:145-149: (container, resp.get(container)) for each container
\* present, in the order of CONTAINERS, and the response itself last.
BodyCandidates(resp) ==
    LET present == SelectSeq(CONTAINERS, LAMBDA c : HasKey(resp, c))
    IN  [i \in 1..Len(present) |-> Get(resp, present[i])] \o <<resp>>

\* main.py:152-161: the first usable (body, key), bodies outermost; the
\* result is <<>> when there is none, else <<value>>.
RECURSIVE ProbeKeys(_, _)
ProbeKeys(body, keys) ==
    IF keys = <<>> THEN <<>>
    ELSE IF Usable(body, Head(keys)) THEN <<DirectValue(body, Head(keys))>>
    ELSE ProbeKeys(body, Tail(keys))

RECURSIVE ProbeBodies(_, _)
ProbeBodies(bodies, keys) ==
    IF bodies = <<>> THEN <<>>
    ELSE LET here == IF Head(bodies).t = "dict" THEN ProbeKeys(Head(bodies), keys) ELSE <<>>
         IN  IF here # <<>> THEN here ELSE ProbeBodies(Tail(bodies), keys)

\* main.py:144-161, the direct keys of the dhanhq path
DhanDirect(resp) == ProbeBodies(BodyCandidates(resp), DHAN_KEYS)

\* main.py:197-205, the direct keys of the HTTP path: the one body is
\* j["data"] when present, else j
HttpDirect(j) ==
    IF j.t = "dict"
    THEN IF (IF HasKey(j, K_data) THEN Get(j, K_data) ELSE j).t = "dict"
         THEN ProbeKeys(IF HasKey(j, K_data) THEN Get(j, K_data) ELSE j, HTTP_KEYS)
         ELSE <<>>
    ELSE <<>>

\* main.py:164-173 and 206-213: the first hit of the deep search, as a float
FirstHit(resp) ==
    IF deep_search_numeric_candidates(resp, 0).raised THEN Raise
    ELSE IF deep_search_numeric_candidates(resp, 0).hits # <<>>
         THEN Value(FloatOf(deep_search_numeric_candidates(resp, 0).hits[1]))
    ELSE None

\* main.py:124-177, the dhanhq path: an exception of get_market_quote is
\* caught at once and the response taken as None; an empty response gives
\* None; only a dict is probed and deep-searched.
DhanPath(f) ==
    IF f.raised THEN None
    ELSE IF Falsy(f.v) THEN None
    ELSE IF f.v.t = "dict"
         THEN IF DhanDirect(f.v) # <<>> THEN Value(DhanDirect(f.v)[1])
              ELSE FirstHit(f.v)
    ELSE None

\* main.py:180-214, the HTTP fallback: without a token None; requests.get,
\* raise_for_status and r.json() raise into the handler of get_ltp; every
\* top-level shape is deep-searched.
HttpPath(f, token) ==
    IF ~token THEN None
    ELSE IF f.raised THEN Raise
    ELSE IF HttpDirect(f.v) # <<>> THEN Value(HttpDirect(f.v)[1])
    ELSE FirstHit(f.v)

\* main.py:122-214, the body of the try
GetLtpBody(client, token, f) == IF client THEN DhanPath(f) ELSE HttpPath(f, token)

\* main.py:216-218 without the handler: what leaves the body leaves get_ltp
GetLtpUnguarded(client, token, f) == GetLtpBody(client, token, f)

\* main.py:115-218: except Exception turns whatever the body raised into None
get_ltp(client, token, f) ==
    IF GetLtpBody(client, token, f).kind = "raise" THEN None
    ELSE GetLtpBody(client, token, f)

-----------------------------------------------------------------------------
(* build_option_chain, format_message                                      *)

\* main.py:48-51, the configured instruments in dict order
INSTRUMENTS == <<"NIFTY50", "TCS">>

\* main.py:229: 50 for a symbol that starts with NIFTY, and 50 otherwise
StrikeInterval(symbol) == IF symbol = "NIFTY50" THEN 50 ELSE 50

\* round(num/den) for den > 0 as Python rounds a float: to the nearest
\* integer, a tie to the even one
RoundHalfEven(num, den) ==
    LET q == num \div den
        r == num % den
    IN  IF 2 * r < den THEN q
        ELSE IF 2 * r > den THEN q + 1
        ELSE IF q % 2 = 0 THEN q ELSE q + 1

\* main.py:226, the placeholder leg
OptionData == [ltp |-> 0, oi |-> 0, iv |-> "None", volume |-> 0]

Rows(r) == [kind |-> "rows", rows |-> r]

ChainRaise == [kind |-> "raise", rows |-> <<>>]

NoChain == [kind |-> "none", rows |-> <<>>]

\* main.py:233, range(-window, window + 1) with is_atm on a shifted index
BuildRowsAtmShifted(atm, interval, window) ==
    [j \in 1..(2 * window + 1) |->
        [strike |-> atm + (j - window - 1) * interval,
         CE |-> OptionData, PE |-> OptionData, is_atm |-> (j - window - 1) = 1]]

\* main.py:232-238, the rows for i in range(-window, window + 1)
BuildRows(atm, interval, window) ==
    [j \in 1..(2 * window + 1) |->
        [strike |-> atm + (j - window - 1) * interval,
         CE |-> OptionData, PE |-> OptionData, is_atm |-> (j - window - 1) = 0]]

\* main.py:228-238.  round() of a NaN raises ValueError and of an infinity
\* OverflowError; nothing in the function catches them.  spot is in
\* hundredths, so spot/interval is spot.c / (100 * interval).
build_option_chain(symbol, spot, window) ==
    IF ~IsFinite(spot) THEN ChainRaise
    ELSE LET interval == StrikeInterval(symbol)
             atm      == RoundHalfEven(spot.c, 100 * interval) * interval
         IN  Rows(BuildRows(atm, interval, window))

\* main.py:240-255: the report names the symbol and the spot and has one
\* line per row, the at-the-money one marked.  It raises on nothing that
\* build_option_chain returns.
format_message(symbol, spot, rows) ==
    [symbol |-> symbol, spot |-> spot,
     lines |-> [j \in 1..Len(rows) |-> [marker |-> rows[j].is_atm, strike |-> rows[j].strike]]]

-----------------------------------------------------------------------------
(* The raw responses the model draws from                                  *)

\* entries per dict in the exhaustive family
MaxEntries == 2

\* wrappers put around a priced dict (the scan bound is MAX_DEPTH)
MaxNest == 6

\* extra entries placed around data.quote.lastPrice
MaxDecoys == 1

\* elements of a short list
MaxListLen == 2

K_openPrice == <<"o","p","e","n","P","r","i","c","e">>

K_id == <<"i","d">>

K_quote == <<"q","u","o","t","e">>

K_rows == <<"r","o","w","s">>

K_a == <<"a">>

S_1234_50 == <<"1",",","2","3","4",".","5","0">>

S_19245_75 == <<"1","9",",","2","4","5",".","7","5">>

S_abc == <<"a","b","c">>

CoreLeaves == {Null, Num(Fin(500)), Str(S_1234_50), Str(S_abc)}

AllLeaves ==
    CoreLeaves \cup {Str(S_nan), Str(<<>>), Str(<<",">>), Str(<<" ","7"," ">>), Str(S_inf),
                     Num(Fin(725)), Num(Fin(0)), Bool(TRUE)}

CoreKeys ==
    {StrKey(K_ltp), StrKey(K_lastPrice), StrKey(K_openPrice), StrKey(K_id), IntKey(<<"5">>)}

AllKeys ==
    CoreKeys \cup {StrKey(K_LTP), StrKey(K_last), StrKey(K_last_traded_price), StrKey(K_lastTradedPrice), StrKey(K_data)}

DistinctKeys(items) ==
    \A i, j \in 1..Len(items) : i # j => items[i].k # items[j].k

\* every dict of 1..n entries with distinct keys, in every order
FlatDicts(keys, vals, n) ==
    {Dict(items) : items \in
        {it \in UNION {[1..m -> {Entry(k, v) : k \in keys, v \in vals}] : m \in 1..n} :
            DistinctKeys(it)}}

One(k, v) == Dict(<<Entry(StrKey(k), v)>>)

R_scalar == AllLeaves

R_flat == FlatDicts(CoreKeys, CoreLeaves, MaxEntries)

R_wide == FlatDicts(AllKeys, AllLeaves, 1)

R_wrapped ==
    {One(c, d) : c \in {K_data, K_result, K_response, K_payload, K_quote},
                 d \in R_wide \cup CoreLeaves}

SiblingKeys == {K_ltp, K_lastPrice, K_last, K_lastTradedPrice, K_openPrice, K_id}

SiblingLeaves == {Num(Fin(500)), Num(Fin(725)), Str(S_abc), Null}

\* one leaf entry and one container entry at the top level, in both orders
R_sibling ==
    UNION {{Dict(<<Entry(StrKey(k), v), Entry(StrKey(c), One(k2, v2))>>),
            Dict(<<Entry(StrKey(c), One(k2, v2)), Entry(StrKey(k), v)>>)} :
           k \in SiblingKeys, v \in SiblingLeaves,
           c \in {K_data, K_result, K_response, K_payload},
           k2 \in SiblingKeys, v2 \in SiblingLeaves}

\* two containers at the top level, in both orders
R_containers ==
    {Dict(<<Entry(StrKey(cc[1]), One(k1, v1)), Entry(StrKey(cc[2]), One(k2, v2))>>) :
        cc \in {p \in {K_data, K_result, K_response, K_payload}
                      \X {K_data, K_result, K_response, K_payload} : p[1] # p[2]},
        k1 \in {K_ltp, K_lastPrice, K_id}, v1 \in {Num(Fin(500)), Str(S_abc)},
        k2 \in {K_ltp, K_lastPrice, K_id}, v2 \in {Num(Fin(725)), Str(S_abc)}}

\* An optional extra entry: none, or one of these.
Decoys ==
    {<<>>} \cup {<<Entry(StrKey(k), v)>> : k \in {K_openPrice, K_id},
                                           v \in {Num(Fin(725)), Str(S_abc), List(<<Num(Fin(725))>>)}}

QuoteWith(a, price) ==
    Dict(a[1] \o <<Entry(StrKey(K_data),
                     Dict(a[3] \o <<Entry(StrKey(K_quote),
                                      Dict(a[5] \o <<Entry(StrKey(K_lastPrice), price)>> \o a[6]))>>
                          \o a[4]))>>
         \o a[2])

\* the ways to fill at most MaxDecoys of the six places around the price:
\* before and after data, before and after quote, before and after lastPrice
DecoyPlacings ==
    UNION {{[i \in 1..6 |-> IF i \in S THEN g[i] ELSE <<>>] : g \in [S -> Decoys \ {<<>>}]} :
           S \in {T \in SUBSET (1..6) : Cardinality(T) <= MaxDecoys}}

\* data.quote.lastPrice with at most MaxDecoys extra entries before or after
\* it at each of the three levels
R_quote ==
    {QuoteWith(a, price) :
        a \in {b \in DecoyPlacings :
                 /\ DistinctKeys(b[1] \o b[2])
                 /\ DistinctKeys(b[3] \o b[4])
                 /\ DistinctKeys(b[5] \o b[6])},
        price \in {Num(Fin(500)), Str(S_1234_50)}}

RECURSIVE NestDict(_, _)
NestDict(n, v) == IF n = 0 THEN v ELSE One(K_a, NestDict(n - 1, v))

RECURSIVE NestList(_, _)
NestList(n, v) == IF n = 0 THEN v ELSE List(<<NestList(n - 1, v)>>)

R_nest ==
    UNION {{NestDict(n, d), NestList(n, d), One(K_a, NestList(n, d))} :
           n \in 1..MaxNest,
           d \in {One(K_openPrice, Num(Fin(500))), One(K_ltp, Str(S_1234_50)),
                  One(K_id, Num(Fin(500))),
                  Dict(<<Entry(IntKey(<<"5">>), Num(Fin(500)))>>)}}

ListElems == {Null, Num(Fin(500)), One(K_ltp, Num(Fin(500))), One(K_id, Str(S_abc))}

\* a list whose only priced element is its n-th
LongList(n) == List([i \in 1..n |-> IF i = n THEN One(K_ltp, Num(Fin(500))) ELSE Null])

R_list ==
    LET short == {List(l) : l \in UNION {[1..m -> ListElems] : m \in 0..MaxListLen}}
        long  == {LongList(MAX_LIST_SCAN), LongList(MAX_LIST_SCAN + 1)}
    IN  short \cup long \cup {One(K_rows, l) : l \in short \cup long}

Responses ==
    R_scalar \cup R_flat \cup R_wide \cup R_wrapped \cup R_sibling \cup R_containers
    \cup R_quote \cup R_nest \cup R_list \cup {Dict(<<>>)}

\* r.json() gives dicts whose keys are all str
RECURSIVE JsonShaped(_)
JsonShaped(v) ==
    IF v.t = "dict"
    THEN \A i \in 1..Len(v.items) : v.items[i].k.str /\ JsonShaped(v.items[i].v)
    ELSE IF v.t = "list" THEN \A i \in 1..Len(v.items) : JsonShaped(v.items[i])
    ELSE TRUE

NoFetch == FetchValue(Null)

\* What the upstream call can do for the given transport.
Fetches(client) ==
    {FetchRaised} \cup {FetchValue(v) : v \in {r \in Responses : client \/ JsonShaped(r)}}

-----------------------------------------------------------------------------
(* The extraction on its own: one get_ltp call on a drawn response         *)

\* The credentials as line 54 leaves them: a client needs the access token.
Transports == {<<TRUE, TRUE>>, <<FALSE, TRUE>>, <<FALSE, FALSE>>}

InitExtract ==
    /\ \E tr \in Transports : dhan = tr[1] /\ DHAN_ACCESS_TOKEN = tr[2]
    /\ fetch \in IF dhan \/ DHAN_ACCESS_TOKEN THEN Fetches(dhan) ELSE {NoFetch}
    /\ TELEGRAM_BOT_TOKEN = FALSE /\ TELEGRAM_CHAT_ID = FALSE
    /\ POLL_INTERVAL = 60 /\ STRIKE_WINDOW = 5
    /\ running = TRUE /\ task = "extract" /\ cancelReq = FALSE /\ stops = 0
    /\ idx = 1 /\ ltp = None /\ chain = NoChain /\ sleepDur = 0
    /\ fetched = <<>> /\ failed = {} /\ reported = {} /\ ev = "init"

\* await self.get_ltp(sec, exch), main.py:275
Extract ==
    /\ task = "extract"
    /\ ltp' = get_ltp(dhan, DHAN_ACCESS_TOKEN, fetch)
    /\ task' = "extracted"
    /\ ev' = "get_ltp"
    /\ UNCHANGED <<cfgVars, running, cancelReq, stops, idx, fetch, chain, sleepDur,
                   fetched, failed, reported>>

NextExtract == Extract

SpecExtract == InitExtract /\ [][NextExtract]_vars

-----------------------------------------------------------------------------
(* build_option_chain on its own: one call on a drawn spot price           *)

\* the largest window drawn
MaxWindow == 5

\* spot prices are drawn at multiples of 12.50 up to this many steps from 0
MaxSpotK == 12

Spots ==
    {Fin(1250 * k) : k \in (0 - MaxSpotK)..MaxSpotK}
    \cup {Fin(1765000), Fin(1762500), Fin(1767500), Fin(1924575)}
    \cup {NaN, Inf(1), Inf(-1)}

InitChain ==
    /\ ltp \in {Value(x) : x \in Spots}
    /\ STRIKE_WINDOW \in 0..MaxWindow
    /\ idx \in 1..Len(INSTRUMENTS)
    /\ dhan = TRUE /\ DHAN_ACCESS_TOKEN = TRUE
    /\ TELEGRAM_BOT_TOKEN = FALSE /\ TELEGRAM_CHAT_ID = FALSE
    /\ POLL_INTERVAL = 60
    /\ running = TRUE /\ task = "build" /\ cancelReq = FALSE /\ stops = 0
    /\ fetch = NoFetch /\ chain = NoChain /\ sleepDur = 0
    /\ fetched = <<>> /\ failed = {} /\ reported = {} /\ ev = "init"

\* chain = self.build_option_chain(sym, float(ltp)), main.py:280
Build ==
    /\ task = "build"
    /\ chain' = build_option_chain(INSTRUMENTS[idx], ltp.x, STRIKE_WINDOW)
    /\ task' = "built"
    /\ ev' = "build_option_chain"
    /\ UNCHANGED <<cfgVars, running, cancelReq, stops, idx, fetch, ltp, sleepDur,
                   fetched, failed, reported>>

NextChain == Build

SpecChain == InitChain /\ [][NextChain]_vars

-----------------------------------------------------------------------------
(* The poll loop, start() and stop()                                       *)

\* stop requests (signals, or calls of stop()) in one run
MaxSignals == 2

\* POLL_INTERVAL values drawn: below, at and above the cap of the backoff
PollIntervals == {30, 60, 90}

\* STRIKE_WINDOW values drawn for the loop
PollWindows == {5}

\* random_jitter(), main.py:76-81: a byte over 255, in 1/255 s
Jitters == {0, 128, 255}

\* What the upstream call does in the loop: it raises, or returns one of
\* these responses.
PollResponses ==
    {Null, Dict(<<>>),
     One(K_ltp, Num(Fin(1765000))),
     One(K_data, One(K_ltp, Str(S_19245_75))),
     One(K_ltp, Str(S_nan)),
     One(K_ltp, Str(S_inf)),
     One(K_id, Num(Fin(500))),
     Dict(<<Entry(IntKey(<<"5">>), Num(Fin(500)))>>),
     List(<<One(K_ltp, Num(Fin(500)))>>)}

PollFetches(client, token) ==
    IF ~client /\ ~token THEN {NoFetch}
    ELSE {FetchRaised} \cup
         {FetchValue(v) : v \in {r \in PollResponses : client \/ JsonShaped(r)}}

\* main.py:71: the Bot object exists when the token is set
bot == TELEGRAM_BOT_TOKEN

\* main.py:290 without the cap
BackoffSleepUncapped == 255 * POLL_INTERVAL

\* main.py:290, min(60, POLL_INTERVAL), in 1/255 s
BackoffSleep == 255 * (IF 60 < POLL_INTERVAL THEN 60 ELSE POLL_INTERVAL)

\* main.py:276-278 with the rest of the cycle given up
NextIndexAbandon(i) == Len(INSTRUMENTS) + 1

\* main.py:271 and 276-278: continue goes on with the next instrument
NextIndex(i) == i + 1

\* main.py:297 alone: the flag is cleared and the task left to itself
StopCancelsNever(t) == FALSE

\* main.py:298-299: Task.cancel() has an effect on a task that is not done
StopCancels(t) == t \in {"created", "sending", "sleep", "backoff"}

Init ==
    /\ \E tr \in Transports : dhan = tr[1] /\ DHAN_ACCESS_TOKEN = tr[2]
    /\ TELEGRAM_BOT_TOKEN \in BOOLEAN /\ TELEGRAM_CHAT_ID \in BOOLEAN
    /\ POLL_INTERVAL \in PollIntervals
    /\ STRIKE_WINDOW \in PollWindows
    /\ running = TRUE /\ task = "none" /\ cancelReq = FALSE /\ stops = 0
    /\ idx = 1 /\ fetch = NoFetch /\ ltp = None /\ chain = NoChain /\ sleepDur = 0
    /\ fetched = <<>> /\ failed = {} /\ reported = {} /\ ev = "init"

\* main.py:292-293, start(): the task is created, and runs later
Start ==
    /\ task = "none"
    /\ task' = "created"
    /\ UNCHANGED <<cfgVars, running, cancelReq, stops, idx, fetch, ltp, chain,
                   sleepDur, fetched, failed, reported, ev>>

\* main.py:307-313: a signal makes asyncio.create_task(bot_obj.stop()); a
\* caller may call stop() too
Signal ==
    /\ stops < MaxSignals
    /\ stops' = stops + 1
    /\ UNCHANGED <<cfgVars, running, task, cancelReq, idx, fetch, ltp, chain,
                   sleepDur, fetched, failed, reported, ev>>

\* main.py:295-304, stop() up to its await.  It runs only while the poll
\* task is not running, that is, is suspended, done or not created.
StopRun ==
    /\ stops > 0
    /\ task # "fetch"
    /\ stops' = stops - 1
    /\ running' = FALSE
    /\ cancelReq' = (cancelReq \/ StopCancels(task))
    /\ UNCHANGED <<cfgVars, task, idx, fetch, ltp, chain, sleepDur,
                   fetched, failed, reported, ev>>

\* main.py:269-271: while self.running, and a cycle starts with the first
\* instrument
LoopTop ==
    IF running
    THEN /\ task' = "fetch" /\ idx' = 1
         /\ fetched' = <<>> /\ failed' = {} /\ reported' = {}
         /\ sleepDur' = 0
    ELSE /\ task' = "done"
         /\ UNCHANGED <<idx, fetched, failed, reported, sleepDur>>

\* The first step of the task: a task cancelled before it ran never enters
\* poll_loop.
PollEnter ==
    /\ task = "created"
    /\ IF cancelReq
       THEN /\ task' = "done" /\ ev' = "cancelled" /\ cancelReq' = FALSE
            /\ UNCHANGED <<idx, fetched, failed, reported, sleepDur>>
       ELSE /\ LoopTop /\ UNCHANGED cancelReq
            /\ ev' = IF running THEN "entered" ELSE "not_entered"
    /\ UNCHANGED <<cfgVars, running, stops, fetch, ltp, chain>>

\* main.py:271 and 284: position p of the for loop; past the last
\* instrument the cycle ends in asyncio.sleep(POLL_INTERVAL + random_jitter())
GoTo(p) ==
    IF p <= Len(INSTRUMENTS)
    THEN /\ task' = "fetch" /\ idx' = p /\ sleepDur' = 0
    ELSE /\ task' = "sleep" /\ UNCHANGED idx
         /\ \E b \in Jitters : sleepDur' = 255 * POLL_INTERVAL + b

\* main.py:288-290: the handler at the level of the loop
LoopError ==
    /\ task' = "backoff" /\ sleepDur' = BackoffSleep /\ UNCHANGED idx

\* main.py:272-282, one instrument: get_ltp, and with a price
\* build_option_chain, format_message and send_telegram up to its await
Process ==
    /\ task = "fetch"
    /\ \E f \in PollFetches(dhan, DHAN_ACCESS_TOKEN) :
        \E r \in {get_ltp(dhan, DHAN_ACCESS_TOKEN, f)} :
        \E c \in {build_option_chain(INSTRUMENTS[idx], r.x, STRIKE_WINDOW)} :
            /\ fetch' = f
            /\ ltp' = r
            /\ fetched' = Append(fetched, idx)
            /\ \/ /\ r.kind = "none"
                  /\ chain' = NoChain /\ failed' = failed \cup {idx}
                  /\ UNCHANGED reported
                  /\ ev' = "no_ltp"
                  /\ GoTo(NextIndex(idx))
               \/ /\ r.kind = "raise"
                  /\ chain' = NoChain /\ UNCHANGED <<failed, reported>>
                  /\ ev' = "error"
                  /\ LoopError
               \/ /\ r.kind = "value" /\ c.kind = "raise"
                  /\ chain' = c /\ UNCHANGED <<failed, reported>>
                  /\ ev' = "error"
                  /\ LoopError
               \/ /\ r.kind = "value" /\ c.kind = "rows" /\ ~bot
                  /\ chain' = c /\ UNCHANGED <<failed, reported>>
                  /\ ev' = "send_skipped"
                  /\ GoTo(idx + 1)
               \/ /\ r.kind = "value" /\ c.kind = "rows" /\ bot
                  /\ chain' = c /\ UNCHANGED failed
                  /\ reported' = reported \cup {idx}
                  /\ ev' = "send"
                  /\ task' = "sending" /\ UNCHANGED <<idx, sleepDur>>
    /\ UNCHANGED <<cfgVars, running, cancelReq, stops>>

\* main.py:262-265: bot.send_message returns or raises; either way the loop
\* goes on with the next instrument
SendDone ==
    /\ task = "sending" /\ ~cancelReq
    /\ \E ok \in BOOLEAN : ev' = IF ok THEN "sent" ELSE "send_failed"
    /\ GoTo(idx + 1)
    /\ UNCHANGED <<cfgVars, running, cancelReq, stops, fetch, ltp, chain,
                   fetched, failed, reported>>

\* main.py:284 and 269: the sleep between cycles runs to its end
Wake ==
    /\ task = "sleep" /\ ~cancelReq
    /\ ev' = "woke"
    /\ LoopTop
    /\ UNCHANGED <<cfgVars, running, cancelReq, stops, fetch, ltp, chain>>

\* main.py:290 and 269: the backoff sleep runs to its end
BackoffWake ==
    /\ task = "backoff" /\ ~cancelReq
    /\ ev' = "backoff_woke"
    /\ LoopTop
    /\ UNCHANGED <<cfgVars, running, cancelReq, stops, fetch, ltp, chain>>

\* CancelledError at the await the task is suspended in.  In send_telegram
\* except Exception lets it pass; main.py:285-287 breaks out of the loop;
\* from the backoff sleep, which is inside a handler, it leaves poll_loop.
Cancelled ==
    /\ task \in {"sending", "sleep", "backoff"} /\ cancelReq
    /\ task' = "done" /\ cancelReq' = FALSE
    /\ ev' = "cancelled"
    /\ UNCHANGED <<cfgVars, running, stops, idx, fetch, ltp, chain, sleepDur,
                   fetched, failed, reported>>

Next ==
    \/ Start
    \/ Signal
    \/ StopRun
    \/ PollEnter
    \/ Process
    \/ SendDone
    \/ Wake
    \/ BackoffWake
    \/ Cancelled

Spec == Init /\ [][Next]_vars

\* The event loop runs every ready callback: a task that was cancelled, or
\* created, takes its next step.
FairSpec == Spec /\ WF_vars(PollEnter) /\ WF_vars(Cancelled)

-----------------------------------------------------------------------------
(* Properties                                                              *)

Range(q) == {q[i] : i \in 1..Len(q)}

\* a raw response was obtained and get_ltp has returned
Extracted == task = "extracted" /\ (dhan \/ DHAN_ACCESS_TOKEN) /\ ~fetch.raised

\* C1: whatever the upstream call returned or raised, get_ltp ends with a
\* number or with None; no exception leaves it.
C1_GetLtpNeverRaises == task = "extracted" => ltp.kind \in {"value", "none"}

\* C1's case: the body of get_ltp raised (a key that is not a str beside a
\* number, or a failed HTTP call) and the call still returned None.
C1_Witness ==
    /\ task = "extracted"
    /\ GetLtpBody(dhan, DHAN_ACCESS_TOKEN, fetch).kind = "raise"
    /\ ltp = None

\* The bodies in the order C2 states: the response itself, then the values
\* under data, result, response, payload that are present.
ClaimedBodies(resp) ==
    <<resp>> \o [i \in 1..Len(SelectSeq(CONTAINERS, LAMBDA c : HasKey(resp, c))) |->
                    Get(resp, SelectSeq(CONTAINERS, LAMBDA c : HasKey(resp, c))[i])]

\* C2: for a response that is a mapping with a usable (body, key) pair,
\* get_ltp returns the value of the first one, bodies taken in the order
\* response itself, data, result, response, payload and keys in the order
\* LTP, ltp, lastPrice, last_traded_price, lastTradedPrice, last.
C2_RootBodyFirst ==
    (/\ Extracted
     /\ fetch.v.t = "dict"
     /\ ProbeBodies(ClaimedBodies(fetch.v), DHAN_KEYS) # <<>>)
    => ltp = Value(ProbeBodies(ClaimedBodies(fetch.v), DHAN_KEYS)[1])

\* the response holds a usable price at data.quote.lastPrice
HasQuotePrice(resp) ==
    /\ resp.t = "dict" /\ HasKey(resp, K_data)
    /\ Get(resp, K_data).t = "dict" /\ HasKey(Get(resp, K_data), K_quote)
    /\ Get(Get(resp, K_data), K_quote).t = "dict"
    /\ Usable(Get(Get(resp, K_data), K_quote), K_lastPrice)

\* C3: when the price sits under data.quote.lastPrice and no direct key is
\* usable in any candidate body, get_ltp returns that price, whatever else
\* the response holds.
C3_NestedPriceWins ==
    (/\ Extracted
     /\ HasQuotePrice(fetch.v)
     /\ ProbeBodies(ClaimedBodies(fetch.v), DHAN_KEYS) = <<>>)
    => ltp = Value(DirectValue(Get(Get(fetch.v, K_data), K_quote), K_lastPrice))

\* a leaf C9 counts: a str key that looks like a price, with a number (a
\* bool is an int) or a numeric-looking string
ClaimedLeaf(e) ==
    IF e.k.str /\ KeyLooksLikeLtp(e.k.s)
    THEN IF e.v.t \in {"num", "bool"} THEN <<FloatOf(e.v)>>
         ELSE IF e.v.t = "str" /\ ParseFloat(Strip(StripCommas(e.v.s))).ok
              THEN <<ParseFloat(Strip(StripCommas(e.v.s))).x>>
         ELSE <<>>
    ELSE <<>>

\* how many items of a value the scan C9 describes looks at
ScanLen(v) ==
    IF v.t = "dict" THEN Len(v.items)
    ELSE IF v.t = "list"
         THEN (IF Len(v.items) < MAX_LIST_SCAN THEN Len(v.items) ELSE MAX_LIST_SCAN)
    ELSE 0

RECURSIVE ClaimedLeaves(_, _, _, _)
\* the leaves C9 counts below items lo..hi of a dict or list, in pre-order,
\* within the depth bound and the first MAX_LIST_SCAN elements of a list
ClaimedLeaves(obj, lo, hi, depth) ==
    IF depth > MAX_DEPTH \/ lo > hi THEN <<>>
    ELSE IF lo = hi
    THEN IF obj.t = "dict"
         THEN ClaimedLeaf(obj.items[lo])
              \o ClaimedLeaves(obj.items[lo].v, 1, ScanLen(obj.items[lo].v), depth + 1)
         ELSE ClaimedLeaves(obj.items[lo], 1, ScanLen(obj.items[lo]), depth + 1)
    ELSE ClaimedLeaves(obj, lo, (lo + hi) \div 2, depth)
         \o ClaimedLeaves(obj, ((lo + hi) \div 2) + 1, hi, depth)

ClaimedScan(resp) == ClaimedLeaves(resp, 1, ScanLen(resp), 0)

\* C9: when no direct key probe succeeds, get_ltp returns the first such
\* leaf in pre-order, and None exactly when there is none, for a mapping and
\* for any other top-level value alike.
C9_FirstLeafInPreorder ==
    (/\ Extracted
     /\ (IF dhan THEN fetch.v.t # "dict" \/ DhanDirect(fetch.v) = <<>>
         ELSE HttpDirect(fetch.v) = <<>>))
    => ltp = IF ClaimedScan(fetch.v) = <<>> THEN None
             ELSE Value(ClaimedScan(fetch.v)[1])

\* C7: for a finite spot price (a NaN or an infinity is C10's case)
\* build_option_chain returns 2*window+1 rows at
\* strikes atm + i*interval, i from -window to window, ascending, where atm
\* is the multiple of the interval nearest to the spot (a tie to the even
\* multiple), and exactly the row at atm is marked at-the-money.
C7_ChainShape ==
    (task = "built" /\ IsFinite(ltp.x)) =>
        /\ chain.kind = "rows"
        /\ Len(chain.rows) = 2 * STRIKE_WINDOW + 1
        /\ LET w   == STRIKE_WINDOW
               iv  == 50
               atm == chain.rows[w + 1].strike
               d   == 100 * atm - ltp.x.c
           IN  /\ atm % iv = 0
               /\ 2 * d <= 100 * iv /\ 2 * (0 - d) <= 100 * iv
               /\ (2 * d = 100 * iv \/ 2 * (0 - d) = 100 * iv) => (atm \div iv) % 2 = 0
               /\ \A j \in 1..(2 * w + 1) :
                    /\ chain.rows[j].strike = atm + (j - w - 1) * iv
                    /\ chain.rows[j].is_atm = (chain.rows[j].strike = atm)
               /\ \A j \in 1..(2 * w) : chain.rows[j].strike < chain.rows[j + 1].strike
               /\ Cardinality({j \in 1..(2 * w + 1) : chain.rows[j].is_atm}) = 1

\* C7's example: spot 17650 and window 5 give 11 rows from 17400 to 17900
\* with only 17650 marked.
C7_Witness ==
    /\ task = "built" /\ ltp.x = Fin(1765000) /\ STRIKE_WINDOW = 5
    /\ Len(chain.rows) = 11
    /\ chain.rows[1].strike = 17400 /\ chain.rows[11].strike = 17900
    /\ {j \in 1..11 : chain.rows[j].is_atm} = {6}
    /\ chain.rows[6].strike = 17650

\* C4: the instruments of a cycle are taken in configuration order; an
\* instrument for which get_ltp gave None gets no report, and when the cycle
\* is over every instrument after it was fetched all the same.
C4_FailureIsolation ==
    /\ fetched = [i \in 1..Len(fetched) |-> i]
    /\ failed \cap reported = {}
    /\ task \in {"sleep", "backoff", "done"} =>
          \A i \in failed : \A j \in (i + 1)..Len(INSTRUMENTS) : j \in Range(fetched)

\* C4's case: the upstream call raised for the first instrument, and the
\* second was fetched and reported in the same cycle.
C4_Witness ==
    /\ task = "sleep" /\ failed = {1} /\ fetched = <<1, 2>> /\ reported = {2}

\* C5: an error that reaches the handler of the loop leads to one sleep of
\* min(60, POLL_INTERVAL) and then to a new cycle from the first instrument;
\* the task ends only once stop() has cleared the running flag.
C5_BackoffThenRetry ==
    [][/\ task' = "backoff" =>
            sleepDur' = 255 * (IF POLL_INTERVAL < 60 THEN POLL_INTERVAL ELSE 60)
       /\ (task = "backoff" /\ task' # "backoff") =>
            \/ running /\ task' = "fetch" /\ idx' = 1 /\ fetched' = <<>>
            \/ ~running /\ task' = "done"
       /\ (task # "done" /\ task' = "done") => ~running]_vars

\* C5's case: a new cycle has started after a backoff sleep.
C5_Witness == task = "fetch" /\ ev = "backoff_woke" /\ idx = 1 /\ running

\* C6: once stop() has run, the flag stays false, the sleep or delivery in
\* progress is cut short, nothing is fetched, built or delivered any more,
\* and the task ends.
C6_StopIsFinal ==
    /\ [][~running =>
            /\ ~running'
            /\ fetched' = fetched /\ reported' = reported
            /\ fetch' = fetch /\ ltp' = ltp /\ chain' = chain
            /\ task' # task => task' \in {"created", "done"}
            /\ ev' \in {ev, "cancelled", "not_entered"}]_vars
    /\ (~running) ~> (task \in {"none", "done"})

\* C6's case: stop() ran while the task was in a sleep, and the task ended
\* by the cancellation.
C6_Witness == ~running /\ task = "done" /\ ev = "cancelled" /\ sleepDur > 0

\* C8: with the bot token or the chat id missing, no delivery is attempted.
C8_NoSendWithoutCredentials ==
    (~TELEGRAM_BOT_TOKEN \/ ~TELEGRAM_CHAT_ID) => (task # "sending" /\ reported = {})

\* C10: build_option_chain raises for no spot price get_ltp can return.
C10_BuildNeverRaises == chain.kind # "raise"

====
